---- MODULE Spec2Model ----
(***************************************************************************)
(* A model of radosgw_usage_exporter.py: the RADOSGWCollector of a Ceph    *)
(* RADOS gateway usage exporter.  One poll cycle is one run of             *)
(* RADOSGWCollector.collect; the prometheus_client HTTP server runs one    *)
(* such cycle per scrape request, each on a thread of its own, against the *)
(* single registered collector object (`self`).                            *)
(*                                                                         *)
(* Representation of the Python values:                                    *)
(*   - a JSON object (dict) is a record / function on strings; a key is    *)
(*     present iff it is in the DOMAIN;                                    *)
(*   - a JSON array that is a whole response is wrapped, [list |-> seq],   *)
(*     so that it can be compared with None;                               *)
(*   - None is the record [none |-> TRUE];                                 *)
(*   - a bucket-stat entry that is not a dict is [junk |-> <type>];        *)
(*   - the samples of a metric family are a bag (multiset) of              *)
(*     [labels, value]: add_metric appends, duplicates are kept, the       *)
(*     order of the samples inside one family is not modelled.             *)
(***************************************************************************)
EXTENDS Integers, Sequences, FiniteSets, Bags, TLC

VARIABLES
    SKIP_DELETED_BUCKET,  \* module constant read from the environment (line 19)
    SKIP_DELETED_USER,    \* module constant read from the environment (line 20)
    gw,                   \* what the gateway's admin API holds (the JSON it answers with)
    self,                 \* the collector's instance fields written by collect
    pc,                   \* per scrape thread: the position inside collect
    rgw_usage,            \* per thread: collect's local rgw_usage
    rgw_bucket,           \* per thread: collect's local rgw_bucket
    rgw_users,            \* per thread: collect's local rgw_users
    idx,                  \* per thread: position of the running for loop
    requests,             \* per thread: the admin-API requests issued in this cycle
    yielded,              \* per thread: the metric families the cycle yielded
    cycles                \* number of cycles that may still be started

vars == <<SKIP_DELETED_BUCKET, SKIP_DELETED_USER, gw, self, pc, rgw_usage,
          rgw_bucket, rgw_users, idx, requests, yielded, cycles>>

----------------------------------------------------------------------------
(* Python values *)

None == [none |-> TRUE]

List(s) == [list |-> s]

IsList(v) == "list" \in DOMAIN v

\* Python truthiness of a response: None, {} and [] are false.
Truthy(v) ==
    /\ v # None
    /\ DOMAIN v # {}
    /\ IsList(v) => Len(v.list) > 0

\* x in <python list>
InList(x, v) == \E k \in 1..Len(v.list) : v.list[k] = x

\* type(bucket) is dict
IsDict(v) == "junk" \notin DOMAIN v

\* `'categories' in bucket` raises TypeError for a JSON number, boolean or null.
ContainmentRaises(v) == "junk" \in DOMAIN v /\ v.junk \in {"number", "boolean", "null"}

cluster_name == "ceph"

----------------------------------------------------------------------------
(* The fixed catalog of metric families, in the order of the dict literal. *)

CatalogOrder ==
    << "ops", "successful_ops", "bytes_sent", "bytes_received",
       "bucket_usage_bytes", "bucket_bytes_sent", "bucket_bytes_received",
       "bucket_successful_ops", "bucket_ops", "bucket_utilized_bytes",
       "bucket_usage_objects", "bucket_quota_enabled", "bucket_quota_max_size",
       "bucket_quota_max_size_bytes", "bucket_quota_max_objects", "bucket_shards",
       "user_metadata", "user_quota_enabled", "user_quota_max_size",
       "user_quota_max_size_bytes", "user_quota_max_objects", "user_total_objects",
       "user_total_bytes", "user_total_bytes_sent", "user_total_bytes_received",
       "user_bytes_sent", "user_bytes_received", "user_total_ops", "user_ops",
       "user_successful_ops", "user_total_successful_ops", "user_total_buckets",
       "scrape_duration_seconds", "total_buckets", "total_users", "total_objects",
       "total_bytes", "total_bytes_sent", "total_bytes_received", "total_ops",
       "total_successful_ops", "total_category_ops",
       "total_category_successful_ops" >>

Catalog == {CatalogOrder[k] : k \in 1..Len(CatalogOrder)}

\* a setup that leaves the last family of the catalog out
SetupWithoutLastFamily ==
    [name \in Catalog \ {CatalogOrder[Len(CatalogOrder)]} |-> EmptyBag]

\* _setup_empty_prometheus_metrics: a new dict with one empty family per key.
_setup_empty_prometheus_metrics ==
    [name \in Catalog |-> EmptyBag]

Sample(labels, value) == [labels |-> labels, value |-> value]

\* self._prometheus_metrics[name].add_metric(labels, value); a missing key
\* is a KeyError, which the caller models (see CollectTailRaises).
AddMetric(m, name, labels, value) ==
    IF name \in DOMAIN m
    THEN [m EXCEPT ![name] = @ (+) SetToBag({Sample(labels, value)})]
    ELSE m

RECURSIVE AddMetrics(_, _)
\* a run of add_metric calls, given as a sequence of <<name, labels, value>>
AddMetrics(m, calls) ==
    IF calls = <<>> THEN m
    ELSE AddMetrics(AddMetric(m, calls[1][1], calls[1][2], calls[1][3]), Tail(calls))

----------------------------------------------------------------------------
(* The eligibility filter *)

RECURSIVE ScanCategories(_, _)
\* lines 407-412: the for loop, carrying <<creations, deletions>>
ScanCategories(categories, cd) ==
    IF categories = <<>> THEN cd
    ELSE LET category == Head(categories)
             next == IF "category" \notin DOMAIN category THEN cd
                     ELSE IF category.category = "create_bucket"
                          THEN <<category.successful_ops, cd[2]>>
                     ELSE IF category.category = "delete_bucket"
                          THEN <<cd[1], category.successful_ops>>
                     ELSE cd
         IN  ScanCategories(Tail(categories), next)

\* the deletion test with `deletions >= 0` for `deletions > 0`
DeletedOrNeverCreatedOffByOne(creations, deletions) ==
    \/ (creations = -1 /\ deletions >= 0)
    \/ creations = 0
    \/ (creations >= 0 /\ (deletions - creations) >= 0)

\* lines 415-420: the deletion test on the two counts
DeletedOrNeverCreated(creations, deletions) ==
    \/ (creations = -1 /\ deletions > 0)
    \/ creations = 0
    \/ (creations >= 0 /\ (deletions - creations) >= 0)

_skip_bucket(bucket) ==
    IF ~SKIP_DELETED_BUCKET THEN FALSE
    ELSE LET cd == IF "categories" \in DOMAIN bucket
                   THEN ScanCategories(bucket.categories, <<-1, -1>>)
                   ELSE <<-1, -1>>
         IN  DeletedOrNeverCreated(cd[1], cd[2])

\* _skip_bucket raises TypeError on `'categories' in bucket` for a non-container
_skip_bucket_raises(bucket) ==
    SKIP_DELETED_BUCKET /\ ContainmentRaises(bucket)

\* lines 427-431 (also 448-452, 516-520): owner, or user on Luminous
OwnerOf(record) ==
    IF "owner" \in DOMAIN record THEN record.owner ELSE record.user

\* a user test that finds every owner in the user list
SkipNoUser(user, users) == FALSE

_skip_user(user, users) ==
    IF ~SKIP_DELETED_USER THEN FALSE
    ELSE ~InList(OwnerOf(user), users)

\* `u not in rgw_users` raises TypeError when rgw_users is None
_skip_user_raises(user, users) ==
    SKIP_DELETED_USER /\ users = None

----------------------------------------------------------------------------
(* The usage aggregator *)

\* d[k] = v on a dict
Put(d, k, v) == (k :> v) @@ d

\* Counter(): a missing key reads 0
EmptyCounter ==
    [ops |-> 0, successful_ops |-> 0, bytes_sent |-> 0, bytes_received |-> 0]

\* a dict.update in place of Counter.update: the bin's counts replace the old ones
CounterOverwrite(c, category) ==
    [ops            |-> category.ops,
     successful_ops |-> category.successful_ops,
     bytes_sent     |-> category.bytes_sent,
     bytes_received |-> category.bytes_received]

\* lines 476-480: c.update({...}) adds the counts to those already there
CounterUpdate(c, category) ==
    [ops            |-> c.ops + category.ops,
     successful_ops |-> c.successful_ops + category.successful_ops,
     bytes_sent     |-> c.bytes_sent + category.bytes_sent,
     bytes_received |-> c.bytes_received + category.bytes_received]

RECURSIVE AddCategories(_, _)
\* lines 472-480: the loop over one bin's categories, on usage_dict[owner][bucket]
AddCategories(bucket_dict, categories) ==
    IF categories = <<>> THEN bucket_dict
    ELSE LET category == Head(categories)
             category_name == category.category
             c == IF category_name \in DOMAIN bucket_dict
                  THEN bucket_dict[category_name] ELSE EmptyCounter
         IN  AddCategories(Put(bucket_dict, category_name, CounterUpdate(c, category)),
                           Tail(categories))

\* lines 464-467
BucketName(bucket) ==
    IF bucket.bucket = "" THEN "bucket_root" ELSE bucket.bucket

RECURSIVE AddBuckets(_, _)
\* lines 457-480: the loop over one entry's bins, on usage_dict[owner]
AddBuckets(owner_dict, buckets) ==
    IF buckets = <<>> THEN owner_dict
    ELSE LET bucket == Head(buckets)
             bucket_name == BucketName(bucket)
             bucket_dict == IF bucket_name \in DOMAIN owner_dict
                            THEN owner_dict[bucket_name] ELSE <<>>
         IN  IF _skip_bucket(bucket)
             THEN AddBuckets(owner_dict, Tail(buckets))
             ELSE AddBuckets(Put(owner_dict, bucket_name,
                                 AddCategories(bucket_dict, bucket.categories)),
                             Tail(buckets))

_get_usage(s, entry) ==
    LET bucket_owner == OwnerOf(entry)
        owner_dict == IF bucket_owner \in DOMAIN s.usage_dict
                      THEN s.usage_dict[bucket_owner] ELSE <<>>
    IN  [s EXCEPT !.usage_dict =
            Put(@, bucket_owner, AddBuckets(owner_dict, entry.buckets))]

\* the (owner, bucket, category) keys of usage_dict
UsageKeys(usage_dict) ==
    UNION { UNION { { <<o, b, c>> : c \in DOMAIN usage_dict[o][b] }
                    : b \in DOMAIN usage_dict[o] }
            : o \in DOMAIN usage_dict }

_update_usage_metrics(s) ==
    LET ud == s.usage_dict
        kept == { k \in UsageKeys(ud) : ~_skip_bucket(ud[k[1]][k[2]]) }
        Emitted(field) ==
            SetToBag({ Sample(<<k[2], k[1], k[3], cluster_name>>,
                              ud[k[1]][k[2]][k[3]][field]) : k \in kept })
    IN  [s EXCEPT !._prometheus_metrics =
            [@ EXCEPT !["ops"]            = @ (+) Emitted("ops"),
                      !["successful_ops"] = @ (+) Emitted("successful_ops"),
                      !["bytes_sent"]     = @ (+) Emitted("bytes_sent"),
                      !["bytes_received"] = @ (+) Emitted("bytes_received")]]

----------------------------------------------------------------------------
(* The summary aggregator *)

RECURSIVE SummaryCategories(_, _, _)
\* lines 525-540: the loop over one summary record's categories
SummaryCategories(s, user, categories) ==
    IF categories = <<>> THEN s
    ELSE LET category == Head(categories)
             c == category.category
             m == AddMetrics(s._prometheus_metrics,
                    << <<"user_bytes_sent", <<user, cluster_name, c>>, category.bytes_sent>>,
                       <<"user_bytes_received", <<user, cluster_name, c>>, category.bytes_received>>,
                       <<"user_ops", <<user, cluster_name, c>>, category.ops>>,
                       <<"user_successful_ops", <<user, cluster_name, c>>, category.successful_ops>> >>)
             \* lines 532-534
             ops1 == Put(s._ops, c,
                         (IF c \in DOMAIN s._ops THEN s._ops[c] ELSE 0) + category.ops)
             \* lines 538-540: the same dict again, self._ops
             ops2 == Put(ops1, c, ops1[c] + category.successful_ops)
         IN  SummaryCategories([s EXCEPT !._prometheus_metrics = m, !._ops = ops2],
                               user, Tail(categories))

_update_usage_summary_metrics(s, summary) ==
    LET user == OwnerOf(summary)
        s1 == IF "categories" \in DOMAIN summary
              THEN SummaryCategories(s, user, summary.categories) ELSE s
        s2 == IF "total" \in DOMAIN summary
              THEN [s1 EXCEPT
                      !._prometheus_metrics = AddMetrics(@,
                         << <<"user_total_bytes_sent", <<user, cluster_name>>, summary.total.bytes_sent>>,
                            <<"user_total_bytes_received", <<user, cluster_name>>, summary.total.bytes_received>>,
                            <<"user_total_ops", <<user, cluster_name>>, summary.total.ops>>,
                            <<"user_total_successful_ops", <<user, cluster_name>>, summary.total.successful_ops>> >>),
                      !._total_bytes_sent = @ + summary.total.bytes_sent,
                      !._total_bytes_received = @ + summary.total.bytes_received,
                      !._total_ops = @ + summary.total.ops,
                      !._total_successful_ops = @ + summary.total.successful_ops]
              ELSE s1
    IN  IF user \in DOMAIN s2.user_buckets
        THEN [s2 EXCEPT !._prometheus_metrics =
                AddMetric(@, "user_total_buckets", <<user, cluster_name>>, s2.user_buckets[user])]
        ELSE s2

RECURSIVE SumCategories(_, _)
\* lines 658-667: the sums over one bin's categories
SumCategories(categories, acc) ==
    IF categories = <<>> THEN acc
    ELSE SumCategories(Tail(categories), CounterUpdate(acc, Head(categories)))

RECURSIVE BucketSummaryLoop(_, _, _)
\* lines 652-679: the loop over one entry's bins; an exception ends it
BucketSummaryLoop(s, buckets, users) ==
    IF buckets = <<>> THEN s
    ELSE LET bucket == Head(buckets)
             bucket_name == bucket.bucket
             bucket_owner == bucket.owner
             t == IF "categories" \in DOMAIN bucket
                  THEN SumCategories(bucket.categories, EmptyCounter) ELSE EmptyCounter
             emitted == [s EXCEPT !._prometheus_metrics = AddMetrics(@,
                 << <<"bucket_ops", <<bucket_name, bucket_owner, cluster_name>>, t.ops>>,
                    <<"bucket_successful_ops", <<bucket_name, bucket_owner, cluster_name>>, t.successful_ops>>,
                    <<"bucket_bytes_sent", <<bucket_name, bucket_owner, cluster_name>>, t.bytes_sent>>,
                    <<"bucket_bytes_received", <<bucket_name, bucket_owner, cluster_name>>, t.bytes_received>> >>)]
         IN  IF _skip_bucket(bucket) THEN BucketSummaryLoop(s, Tail(buckets), users)
             ELSE IF _skip_user_raises(bucket, users) THEN s
             ELSE IF _skip_user(bucket, users) THEN BucketSummaryLoop(s, Tail(buckets), users)
             ELSE BucketSummaryLoop(emitted, Tail(buckets), users)

_update_bucket_usage_summary_metrics(s, user_entry, users) ==
    IF "buckets" \in DOMAIN user_entry
    THEN BucketSummaryLoop(s, user_entry.buckets, users)
    ELSE s

\* line 655 raises for the first bin that is not skipped as a deleted bucket
_update_bucket_usage_summary_metrics_raises(user_entry, users) ==
    /\ "buckets" \in DOMAIN user_entry
    /\ \E k \in 1..Len(user_entry.buckets) :
          ~_skip_bucket(user_entry.buckets[k])
          /\ _skip_user_raises(user_entry.buckets[k], users)

----------------------------------------------------------------------------
(* The entity normalizer: one bucket-stat entry *)

\* the usage fields read with size_kb_actual before size_actual
BucketUsageKbFirst(bucket) ==
    IF bucket.usage # <<>> /\ "rgw.main" \in DOMAIN bucket.usage
    THEN LET main == bucket.usage["rgw.main"]
         IN  << IF "size_kb_actual" \in DOMAIN main THEN main.size_kb_actual * 1024
                ELSE IF "size_actual" \in DOMAIN main THEN main.size_actual
                ELSE 0,
                IF "size_utilized" \in DOMAIN main THEN main.size_utilized ELSE 0,
                IF "num_objects" \in DOMAIN main THEN main.num_objects ELSE 0 >>
    ELSE <<0, 0, 0>>

\* lines 586-601: <<usage bytes, utilized bytes, object count>>
BucketUsage(bucket) ==
    IF bucket.usage # <<>> /\ "rgw.main" \in DOMAIN bucket.usage
    THEN LET main == bucket.usage["rgw.main"]
         IN  << IF "size_actual" \in DOMAIN main THEN main.size_actual
                ELSE IF "size_kb_actual" \in DOMAIN main THEN main.size_kb_actual * 1024
                ELSE 0,
                IF "size_utilized" \in DOMAIN main THEN main.size_utilized ELSE 0,
                IF "num_objects" \in DOMAIN main THEN main.num_objects ELSE 0 >>
    ELSE <<0, 0, 0>>

\* lines 609-614; the modelled records carry no tagset, so only '' is produced
TagList(bucket) == ""

\* a count that starts again at 1 with every bucket of the owner
CountBucketAfresh(user_buckets, bucket_owner) == Put(user_buckets, bucket_owner, 1)

\* lines 582-584: one more bucket of the owner
CountBucket(user_buckets, bucket_owner) ==
    Put(user_buckets, bucket_owner,
        (IF bucket_owner \in DOMAIN user_buckets THEN user_buckets[bucket_owner] ELSE 0) + 1)

_get_bucket_usage(s, bucket) ==
    IF _skip_bucket(bucket) THEN s
    ELSE IF ~IsDict(bucket) THEN s
    ELSE LET bucket_name == bucket.bucket
             bucket_owner == bucket.owner
             u == BucketUsage(bucket)
             labels == << bucket_name, bucket_owner,
                          IF "zonegroup" \in DOMAIN bucket THEN bucket.zonegroup ELSE "0",
                          cluster_name, TagList(bucket) >>
             quota == IF "bucket_quota" \in DOMAIN bucket
                      THEN << <<"bucket_quota_enabled", labels, bucket.bucket_quota.enabled>>,
                              <<"bucket_quota_max_size", labels, bucket.bucket_quota.max_size>>,
                              <<"bucket_quota_max_size_bytes", labels,
                                bucket.bucket_quota.max_size_kb * 1024>>,
                              <<"bucket_quota_max_objects", labels, bucket.bucket_quota.max_objects>> >>
                      ELSE <<>>
         IN  [s EXCEPT
                !.user_buckets = CountBucket(@, bucket_owner),
                !._prometheus_metrics = AddMetrics(@,
                    << <<"bucket_usage_bytes", labels, u[1]>>,
                       <<"bucket_utilized_bytes", labels, u[2]>>,
                       <<"bucket_usage_objects", labels, u[3]>> >>
                    \o quota
                    \o << <<"bucket_shards", labels, bucket.num_shards>> >>)]

\* line 569: _skip_bucket is called before the type test
_get_bucket_usage_raises(bucket) == _skip_bucket_raises(bucket)

----------------------------------------------------------------------------
(* Per-user quota and info *)

\* lines 706-713, on the response of the quota request
_get_user_quota(s, user, quota) ==
    [s EXCEPT !._prometheus_metrics = AddMetrics(@,
        << <<"user_quota_enabled", <<user, cluster_name>>, quota.enabled>>,
           <<"user_quota_max_size", <<user, cluster_name>>, quota.max_size>>,
           <<"user_quota_max_size_bytes", <<user, cluster_name>>, quota.max_size_kb * 1024>>,
           <<"user_quota_max_objects", <<user, cluster_name>>, quota.max_objects>> >>)]

\* quota['enabled'] on None is a TypeError
_get_user_quota_raises(quota) == quota = None

\* an info pass that reports a user without a stats block with zero totals
GetUserInfoZeroStats(s, user, user_info) ==
    LET Field(k) == IF k \in DOMAIN user_info THEN user_info[k] ELSE ""
        bytes == IF "stats" \in DOMAIN user_info THEN user_info.stats.size_actual ELSE 0
        objects == IF "stats" \in DOMAIN user_info THEN user_info.stats.num_objects ELSE 0
    IN  [s EXCEPT
           !._prometheus_metrics = AddMetrics(@,
               << <<"user_metadata", << user, Field("display_name"), Field("email"),
                                        Field("default_storage_class"), cluster_name >>, 1>>,
                  <<"user_total_bytes", <<user, cluster_name>>, bytes>>,
                  <<"user_total_objects", <<user, cluster_name>>, objects>> >>),
           !._total_bytes = @ + bytes,
           !._total_objects = @ + objects]

\* lines 724-748, on the response of the info request
_get_user_info(s, user, user_info) ==
    LET Field(k) == IF k \in DOMAIN user_info THEN user_info[k] ELSE ""
        s1 == [s EXCEPT !._prometheus_metrics =
                  AddMetric(@, "user_metadata",
                            << user, Field("display_name"), Field("email"),
                               Field("default_storage_class"), cluster_name >>, 1)]
    IN  IF "stats" \in DOMAIN user_info
        THEN [s1 EXCEPT
                !._prometheus_metrics = AddMetrics(@,
                    << <<"user_total_bytes", <<user, cluster_name>>, user_info.stats.size_actual>>,
                       <<"user_total_objects", <<user, cluster_name>>, user_info.stats.num_objects>> >>),
                !._total_bytes = @ + user_info.stats.size_actual,
                !._total_objects = @ + user_info.stats.num_objects]
        ELSE s1

\* 'display_name' in None is a TypeError
_get_user_info_raises(user_info) == user_info = None

----------------------------------------------------------------------------
(* collect: the reset at its start and the tail that fills the global series *)

\* lines 61-75
CollectReset ==
    [ _total_objects |-> 0, _total_bytes |-> 0, _total_bytes_sent |-> 0,
      _total_bytes_received |-> 0, _total_ops |-> 0, _total_successful_ops |-> 0,
      _ops |-> <<>>, _successful_ops |-> <<>>,
      _prometheus_metrics |-> _setup_empty_prometheus_metrics,
      usage_dict |-> <<>>, user_buckets |-> <<>> ]

\* a user count that is not reported when the user list is None
TotalUsersOnlyWhenListed(users) == IF users = None THEN -1 ELSE Len(users.list)

\* lines 114-119: 0 for None, len(rgw_users) otherwise
TotalUsers(users) == IF users = None THEN 0 ELSE Len(users.list)

\* lines 121-126: 0 for None, len(rgw_bucket) otherwise
TotalBuckets(bucket) == IF bucket = None THEN 0 ELSE Len(bucket.list)

\* lines 110-152, with the locals rgw_users and rgw_bucket and the measured duration
CollectTail(s, users, bucket, duration) ==
    LET PerCategory(d) ==
            SetToBag({ Sample(<<category>>, d[category]) : category \in DOMAIN d })
    IN  [s EXCEPT !._prometheus_metrics =
            [ AddMetrics(@,
                << <<"scrape_duration_seconds", <<>>, duration>>,
                   <<"total_users", <<>>, TotalUsers(users)>>,
                   <<"total_buckets", <<>>, TotalBuckets(bucket)>>,
                   <<"total_objects", <<>>, s._total_objects>>,
                   <<"total_bytes", <<>>, s._total_bytes>>,
                   <<"total_bytes_sent", <<>>, s._total_bytes_sent>>,
                   <<"total_bytes_received", <<>>, s._total_bytes_received>>,
                   <<"total_ops", <<>>, s._total_ops>>,
                   <<"total_successful_ops", <<>>, s._total_successful_ops>> >>)
              EXCEPT !["total_category_ops"] = @ (+) PerCategory(s._ops) ]]

\* line 151 looks up 'total_category__successful_ops', which is no key of the
\* catalog: a KeyError as soon as self._successful_ops has an item
CollectTailRaises(s) == DOMAIN s._successful_ops # {}

\* lines 154-155: list(self._prometheus_metrics.values()), yielded one by one
CollectYield(s) ==
    LET names == SelectSeq(CatalogOrder, LAMBDA n : n \in DOMAIN s._prometheus_metrics)
    IN  [ k \in 1..Len(names) |->
            [name |-> names[k], samples |-> s._prometheus_metrics[names[k]]] ]

----------------------------------------------------------------------------
(* The admin API *)

Request(query, args) == [query |-> query, args |-> args]

\* line 76
UsageRequest == Request("usage", <<"show-summary=True">>)

\* line 77
BucketRequest == Request("bucket", <<"stats=True">>)

\* line 686
UserListRequest == Request("user", <<"list">>)

\* line 692
MetadataUserRequest == Request("metadata/user", <<"">>)

\* line 701
QuotaRequest(user) == Request("user", <<"quota&uid=", user, "&quota-type=user">>)

\* line 719
InfoRequest(user) == Request("user", <<"uid=", user, "&stats=True">>)

\* the admin-API endpoint a request goes to
Endpoint(r) ==
    IF r.query = "usage" THEN "usage"
    ELSE IF r.query = "bucket" THEN "bucket"
    ELSE IF r.query = "metadata/user" THEN "metadata_user"
    ELSE IF r = UserListRequest THEN "user_list"
    ELSE IF r.args[1] = "quota&uid=" THEN "quota"
    ELSE "info"

\* what the gateway holds for a request (lines 180-191, status 200)
GatewayData(g, r) ==
    IF Endpoint(r) \in {"quota", "info"} THEN g[Endpoint(r)][r.args[2]]
    ELSE g[Endpoint(r)]

\* _request_data: the JSON of the answer, or None on a request error or a
\* status other than 200 (ok = FALSE)
_request_data(g, r, ok) ==
    IF ok THEN GatewayData(g, r) ELSE None

\* the outcomes a request can have: g.faulty holds the endpoints whose requests
\* can fail (connection errors, missing caps, an endpoint the release lacks)
Outcomes(g, r) == IF Endpoint(r) \in g.faulty THEN BOOLEAN ELSE {TRUE}

----------------------------------------------------------------------------
(* collect, step by step *)

Threads == {1, 2}

\* the sections of collect after the three fetches, in program order
StageOrder ==
    << "usage", "usage_metrics", "bucket", "user_quota", "summary",
       "bucket_summary", "finish" >>

\* whether a section has anything to run: the `if rgw_...:` tests of lines
\* 81, 86, 90, 98, 104 and a for loop over at least one item
Runs(stage, usage, bucket, users) ==
    IF stage = "usage" THEN Truthy(usage) /\ Len(usage.entries) > 0
    ELSE IF stage = "usage_metrics" THEN Truthy(usage)
    ELSE IF stage = "bucket" THEN Truthy(bucket)
    ELSE IF stage = "user_quota" THEN Truthy(users)
    ELSE IF stage = "summary" THEN Truthy(usage) /\ Len(usage.summary) > 0
    ELSE IF stage = "bucket_summary" THEN Truthy(usage) /\ Len(usage.entries) > 0
    ELSE TRUE

RECURSIVE StageFrom(_, _, _, _)
\* the first section at or after position k that runs
StageFrom(k, usage, bucket, users) ==
    IF Runs(StageOrder[k], usage, bucket, users) THEN StageOrder[k]
    ELSE StageFrom(k + 1, usage, bucket, users)

Resting(p) == p \in {"idle", "done", "aborted"}

\* a cycle start that leaves the two aggregation dicts as they are, as if
\* lines 74-75 were run once in __init__
StartKeepingDicts(t) ==
    /\ Resting(pc[t])
    /\ cycles > 0
    /\ cycles' = cycles - 1
    /\ self' = [CollectReset EXCEPT !.usage_dict = self.usage_dict,
                                    !.user_buckets = self.user_buckets]
    /\ pc' = [pc EXCEPT ![t] = "fetch_usage"]
    /\ rgw_usage' = [rgw_usage EXCEPT ![t] = None]
    /\ rgw_bucket' = [rgw_bucket EXCEPT ![t] = None]
    /\ rgw_users' = [rgw_users EXCEPT ![t] = None]
    /\ idx' = [idx EXCEPT ![t] = 1]
    /\ requests' = [requests EXCEPT ![t] = <<>>]
    /\ yielded' = [yielded EXCEPT ![t] = <<>>]
    /\ UNCHANGED <<SKIP_DELETED_BUCKET, SKIP_DELETED_USER, gw>>

\* lines 59-75: a scrape request starts a cycle
Start(t) ==
    /\ Resting(pc[t])
    /\ cycles > 0
    /\ cycles' = cycles - 1
    /\ self' = CollectReset
    /\ pc' = [pc EXCEPT ![t] = "fetch_usage"]
    /\ rgw_usage' = [rgw_usage EXCEPT ![t] = None]
    /\ rgw_bucket' = [rgw_bucket EXCEPT ![t] = None]
    /\ rgw_users' = [rgw_users EXCEPT ![t] = None]
    /\ idx' = [idx EXCEPT ![t] = 1]
    /\ requests' = [requests EXCEPT ![t] = <<>>]
    /\ yielded' = [yielded EXCEPT ![t] = <<>>]
    /\ UNCHANGED <<SKIP_DELETED_BUCKET, SKIP_DELETED_USER, gw>>

\* line 76
FetchUsage(t) ==
    /\ pc[t] = "fetch_usage"
    /\ \E ok \in Outcomes(gw, UsageRequest) :
         LET r == UsageRequest
         IN  /\ rgw_usage' = [rgw_usage EXCEPT ![t] = _request_data(gw, r, ok)]
             /\ requests' = [requests EXCEPT ![t] = Append(@, r)]
    /\ pc' = [pc EXCEPT ![t] = "fetch_bucket"]
    /\ UNCHANGED <<SKIP_DELETED_BUCKET, SKIP_DELETED_USER, gw, self, rgw_bucket,
                   rgw_users, idx, yielded, cycles>>

\* line 77
FetchBucket(t) ==
    /\ pc[t] = "fetch_bucket"
    /\ \E ok \in Outcomes(gw, BucketRequest) :
         LET r == BucketRequest
         IN  /\ rgw_bucket' = [rgw_bucket EXCEPT ![t] = _request_data(gw, r, ok)]
             /\ requests' = [requests EXCEPT ![t] = Append(@, r)]
    /\ pc' = [pc EXCEPT ![t] = "fetch_users"]
    /\ UNCHANGED <<SKIP_DELETED_BUCKET, SKIP_DELETED_USER, gw, self, rgw_usage,
                   rgw_users, idx, yielded, cycles>>

\* a user list request without the fallback to metadata/user
FetchUsersWithoutFallback(t) ==
    /\ pc[t] = "fetch_users"
    /\ \E ok \in Outcomes(gw, UserListRequest) :
         LET r == UserListRequest
             answer == _request_data(gw, r, ok)
             users == IF Truthy(answer) /\ "keys" \in DOMAIN answer
                      THEN List(answer.keys) ELSE None
         IN  /\ requests' = [requests EXCEPT ![t] = Append(@, r)]
             /\ rgw_users' = [rgw_users EXCEPT ![t] = users]
             /\ pc' = [pc EXCEPT ![t] = StageFrom(1, rgw_usage[t], rgw_bucket[t], users)]
    /\ UNCHANGED <<SKIP_DELETED_BUCKET, SKIP_DELETED_USER, gw, self, rgw_usage,
                   rgw_bucket, idx, yielded, cycles>>

\* lines 78, 686-689: _get_rgw_users, the user list request
FetchUsers(t) ==
    /\ pc[t] = "fetch_users"
    /\ \E ok \in Outcomes(gw, UserListRequest) :
         LET r == UserListRequest
             answer == _request_data(gw, r, ok)
         IN  /\ requests' = [requests EXCEPT ![t] = Append(@, r)]
             /\ IF Truthy(answer) /\ "keys" \in DOMAIN answer
                THEN /\ rgw_users' = [rgw_users EXCEPT ![t] = List(answer.keys)]
                     /\ pc' = [pc EXCEPT ![t] =
                           StageFrom(1, rgw_usage[t], rgw_bucket[t], List(answer.keys))]
                ELSE /\ rgw_users' = rgw_users
                     /\ pc' = [pc EXCEPT ![t] = "fetch_users_compat"]
    /\ UNCHANGED <<SKIP_DELETED_BUCKET, SKIP_DELETED_USER, gw, self, rgw_usage,
                   rgw_bucket, idx, yielded, cycles>>

\* lines 690-693: _get_rgw_users, the metadata/user request of older gateways
FetchUsersCompat(t) ==
    /\ pc[t] = "fetch_users_compat"
    /\ \E ok \in Outcomes(gw, MetadataUserRequest) :
         LET r == MetadataUserRequest
             answer == _request_data(gw, r, ok)
         IN  /\ requests' = [requests EXCEPT ![t] = Append(@, r)]
             /\ rgw_users' = [rgw_users EXCEPT ![t] = answer]
             /\ pc' = [pc EXCEPT ![t] =
                   StageFrom(1, rgw_usage[t], rgw_bucket[t], answer)]
    /\ UNCHANGED <<SKIP_DELETED_BUCKET, SKIP_DELETED_USER, gw, self, rgw_usage,
                   rgw_bucket, idx, yielded, cycles>>

\* the loop bookkeeping shared by the for loops: next item, or the next section
Advance(t, n, k) ==
    IF idx[t] < n
    THEN /\ idx' = [idx EXCEPT ![t] = @ + 1]
         /\ pc' = pc
    ELSE /\ idx' = [idx EXCEPT ![t] = 1]
         /\ pc' = [pc EXCEPT ![t] =
               StageFrom(k + 1, rgw_usage[t], rgw_bucket[t], rgw_users[t])]

Abort(t) ==
    /\ pc' = [pc EXCEPT ![t] = "aborted"]
    /\ idx' = idx

Frame == UNCHANGED <<SKIP_DELETED_BUCKET, SKIP_DELETED_USER, gw, rgw_usage,
                     rgw_bucket, rgw_users, yielded, cycles>>

\* lines 82-83: one iteration of `for entry in rgw_usage['entries']`
GetUsage(t) ==
    /\ pc[t] = "usage"
    /\ self' = _get_usage(self, rgw_usage[t].entries[idx[t]])
    /\ Advance(t, Len(rgw_usage[t].entries), 1)
    /\ requests' = requests
    /\ Frame

\* line 84
UpdateUsageMetrics(t) ==
    /\ pc[t] = "usage_metrics"
    /\ self' = _update_usage_metrics(self)
    /\ Advance(t, 1, 2)
    /\ requests' = requests
    /\ Frame

\* lines 87-88: one iteration of `for bucket in rgw_bucket`
GetBucketUsage(t) ==
    /\ pc[t] = "bucket"
    /\ LET bucket == rgw_bucket[t].list[idx[t]]
       IN  IF _get_bucket_usage_raises(bucket)
           THEN self' = self /\ Abort(t)
           ELSE /\ self' = _get_bucket_usage(self, bucket)
                /\ Advance(t, Len(rgw_bucket[t].list), 3)
    /\ requests' = requests
    /\ Frame

\* line 94: _get_user_quota(user), with its request (line 701)
GetUserQuota(t) ==
    /\ pc[t] = "user_quota"
    /\ \E ok \in Outcomes(gw, QuotaRequest(rgw_users[t].list[idx[t]])) :
         LET user == rgw_users[t].list[idx[t]]
             r == QuotaRequest(user)
             quota == _request_data(gw, r, ok)
         IN  /\ requests' = [requests EXCEPT ![t] = Append(@, r)]
             /\ IF _get_user_quota_raises(quota)
                THEN self' = self /\ Abort(t)
                ELSE /\ self' = _get_user_quota(self, user, quota)
                     /\ pc' = [pc EXCEPT ![t] = "user_info"]
                     /\ idx' = idx
    /\ Frame

\* line 95: _get_user_info(user), with its request (line 719)
GetUserInfo(t) ==
    /\ pc[t] = "user_info"
    /\ \E ok \in Outcomes(gw, InfoRequest(rgw_users[t].list[idx[t]])) :
         LET user == rgw_users[t].list[idx[t]]
             r == InfoRequest(user)
             user_info == _request_data(gw, r, ok)
         IN  /\ requests' = [requests EXCEPT ![t] = Append(@, r)]
             /\ IF _get_user_info_raises(user_info)
                THEN self' = self /\ Abort(t)
                ELSE /\ self' = _get_user_info(self, user, user_info)
                     /\ IF idx[t] < Len(rgw_users[t].list)
                        THEN /\ idx' = [idx EXCEPT ![t] = @ + 1]
                             /\ pc' = [pc EXCEPT ![t] = "user_quota"]
                        ELSE /\ idx' = [idx EXCEPT ![t] = 1]
                             /\ pc' = [pc EXCEPT ![t] =
                                   StageFrom(5, rgw_usage[t], rgw_bucket[t], rgw_users[t])]
    /\ Frame

\* lines 99-101: one iteration of `for user_summary in rgw_usage['summary']`
UpdateUsageSummary(t) ==
    /\ pc[t] = "summary"
    /\ LET user_summary == rgw_usage[t].summary[idx[t]]
       IN  IF _skip_user_raises(user_summary, rgw_users[t])
           THEN self' = self /\ Abort(t)
           ELSE /\ self' = IF _skip_user(user_summary, rgw_users[t]) THEN self
                           ELSE _update_usage_summary_metrics(self, user_summary)
                /\ Advance(t, Len(rgw_usage[t].summary), 5)
    /\ requests' = requests
    /\ Frame

\* lines 107-108: one iteration of the second `for entry in rgw_usage['entries']`
UpdateBucketUsageSummary(t) ==
    /\ pc[t] = "bucket_summary"
    /\ LET entry == rgw_usage[t].entries[idx[t]]
       IN  /\ self' = _update_bucket_usage_summary_metrics(self, entry, rgw_users[t])
           /\ IF _update_bucket_usage_summary_metrics_raises(entry, rgw_users[t])
              THEN Abort(t)
              ELSE Advance(t, Len(rgw_usage[t].entries), 6)
    /\ requests' = requests
    /\ Frame

\* the values time.time() - start may take
Durations == {1, 2}

\* lines 110-155: the global series, then the families are yielded
CollectFinish(t) ==
    /\ pc[t] = "finish"
    /\ \E duration \in Durations :
         IF CollectTailRaises(self)
         THEN /\ self' = self
              /\ yielded' = yielded
              /\ pc' = [pc EXCEPT ![t] = "aborted"]
         ELSE /\ self' = CollectTail(self, rgw_users[t], rgw_bucket[t], duration)
              /\ yielded' = [yielded EXCEPT ![t] = CollectYield(self')]
              /\ pc' = [pc EXCEPT ![t] = "done"]
    /\ UNCHANGED <<SKIP_DELETED_BUCKET, SKIP_DELETED_USER, gw, rgw_usage, rgw_bucket,
                   rgw_users, idx, requests, cycles>>

Step(t) ==
    \/ Start(t)
    \/ FetchUsage(t)
    \/ FetchBucket(t)
    \/ FetchUsers(t)
    \/ FetchUsersCompat(t)
    \/ GetUsage(t)
    \/ UpdateUsageMetrics(t)
    \/ GetBucketUsage(t)
    \/ GetUserQuota(t)
    \/ GetUserInfo(t)
    \/ UpdateUsageSummary(t)
    \/ UpdateBucketUsageSummary(t)
    \/ CollectFinish(t)

----------------------------------------------------------------------------
(* The gateways the cycles are run against *)

MaxCycles == 2     \* cycles per run
MaxEntries == 2    \* usage entries per response
MaxBins == 2       \* bins per usage entry
MaxSummaries == 2  \* summary records per response
MaxCount == 5      \* largest create_bucket / delete_bucket count

MaxBuckets == 2    \* entries per bucket-stats response

SeqsUpTo(S, n) == UNION { [1..k -> S] : k \in 0..n }

Owners == {"alice", "bob"}

\* alice is reported by a current gateway (owner), bob by a Luminous one (user)
Luminous(o) == o = "bob"

\* alice's bins are those of bucket photos, bob's those of the unnamed bucket
BucketOf(o) == IF o = "alice" THEN "photos" ELSE ""

\* <<ops, successful_ops, bytes_sent, bytes_received>> of the two kinds of record
Load(kind) == IF kind = 1 THEN <<10, 8, 4, 2>> ELSE <<5, 3, 1, 7>>

Cat(c, v) ==
    [category |-> c, ops |-> v[1], successful_ops |-> v[2],
     bytes_sent |-> v[3], bytes_received |-> v[4]]

\* a lifecycle category with the given successful_ops
Lifecycle(c, n) == Cat(c, <<n + 1, n, 0, 0>>)

Bin(o, categories) ==
    [bucket |-> BucketOf(o), owner |-> o, time |-> "2026-01-01 00:00:00.000000Z",
     epoch |-> 1767225600, categories |-> categories]

Entry(o, bins) ==
    IF Luminous(o) THEN [user |-> o, buckets |-> bins]
    ELSE [owner |-> o, buckets |-> bins]

Total(categories) == SumCategories(categories, EmptyCounter)

Summary(o, categories) ==
    IF Luminous(o)
    THEN [user |-> o, categories |-> categories, total |-> Total(categories)]
    ELSE [owner |-> o, categories |-> categories, total |-> Total(categories)]

BucketStat(o) ==
    [bucket |-> BucketOf(o) , owner |-> o, num_shards |-> 11, zonegroup |-> "zg1",
     usage |-> ("rgw.main" :> [size_actual |-> 8192, size_utilized |-> 4096,
                               num_objects |-> 3]),
     bucket_quota |-> [enabled |-> FALSE, max_size |-> -1, max_size_kb |-> 0,
                       max_objects |-> -1]]

UserQuota(o) ==
    [enabled |-> TRUE, max_size |-> 10240, max_size_kb |-> 10, max_objects |-> 100]

UserInfo(o) ==
    IF o = "alice"
    THEN [user_id |-> o, display_name |-> "Alice", email |-> "alice@example.org",
          default_storage_class |-> "STANDARD",
          stats |-> [size_actual |-> 8192, num_objects |-> 3]]
    ELSE [user_id |-> o, display_name |-> "Bob"]

Gateway(usage, bucket, user_list, metadata_user, faulty) ==
    [usage |-> usage, bucket |-> bucket, user_list |-> user_list,
     metadata_user |-> metadata_user,
     quota |-> [o \in Owners |-> UserQuota(o)],
     info |-> [o \in Owners |-> UserInfo(o)],
     faulty |-> faulty]

\* the three fetches of a cycle, with the fallback of the user list
Fetches == {"usage", "bucket", "user_list", "metadata_user"}

\* the bins of the usage log: alice's are a bin of reads and a bin that also logs
\* the bucket's creation and deletion; bob's logs two creations and one deletion
BinKinds(o) ==
    IF o = "alice"
    THEN { Bin(o, << Cat("get_obj", Load(1)) >>),
           Bin(o, << Cat("get_obj", Load(2)), Lifecycle("create_bucket", 1),
                     Lifecycle("delete_bucket", 1) >>) }
    ELSE { Bin(o, << Cat("put_obj", Load(2)), Lifecycle("create_bucket", 2),
                     Lifecycle("delete_bucket", 1) >>) }

UsageEntries ==
    UNION { { Entry(o, bins) : bins \in SeqsUpTo(BinKinds(o), MaxBins) } : o \in Owners }

\* gateways that differ in their usage log
UsageGateways ==
    { Gateway([entries |-> es, summary |-> << Summary("alice", << Cat("get_obj", Load(1)) >>) >>],
              List(<< BucketStat("alice") >>), None, List(<< "alice" >>), {})
        : es \in SeqsUpTo(UsageEntries, MaxEntries) }

----------------------------------------------------------------------------
(* Specifications *)

InitWith(gateways, bucket_toggles, user_toggles, n) ==
    /\ gw \in gateways
    /\ SKIP_DELETED_BUCKET \in bucket_toggles
    /\ SKIP_DELETED_USER \in user_toggles
    /\ cycles = n
    /\ self = CollectReset
    /\ pc = [t \in Threads |-> "idle"]
    /\ rgw_usage = [t \in Threads |-> None]
    /\ rgw_bucket = [t \in Threads |-> None]
    /\ rgw_users = [t \in Threads |-> None]
    /\ idx = [t \in Threads |-> 1]
    /\ requests = [t \in Threads |-> <<>>]
    /\ yielded = [t \in Threads |-> <<>>]

\* scrapes arrive one after the other
Next == Step(1)

\* scrapes may overlap: each runs collect on a thread of its own
NextOverlapping == \E t \in Threads : Step(t)

\* one cycle over every usage log
InitUsage == InitWith(UsageGateways, BOOLEAN, {TRUE}, 1)

SpecUsage == InitUsage /\ [][Next]_vars

----------------------------------------------------------------------------
(* C1: the merge invariant of the usage aggregator *)

\* the positions <<entry, bin, category>> of the usage log that carry the key
\* (owner o, bucket b, category c) in a bin the deletion heuristic keeps
Positions(entries, o, b, c) ==
    UNION { UNION { { <<i, j, k>> : k \in { k \in 1..Len(entries[i].buckets[j].categories) :
                                              entries[i].buckets[j].categories[k].category = c } }
                    : j \in { j \in 1..Len(entries[i].buckets) :
                                /\ BucketName(entries[i].buckets[j]) = b
                                /\ ~_skip_bucket(entries[i].buckets[j]) } }
            : i \in { i \in 1..Len(entries) : OwnerOf(entries[i]) = o } }

RECURSIVE SumField(_, _, _)
\* the sum of one counter over a set of positions
SumField(entries, P, field) ==
    IF P = {} THEN 0
    ELSE LET p == CHOOSE q \in P : TRUE
         IN  entries[p[1]].buckets[p[2]].categories[p[3]][field]
                + SumField(entries, P \ {p}, field)

CounterFields == {"ops", "successful_ops", "bytes_sent", "bytes_received"}

BucketNames == {"photos", "bucket_root", ""}

CategoryNames == {"get_obj", "put_obj", "create_bucket", "delete_bucket"}

\* the keys some kept bin of the usage log carries
ExpectedKeys(entries) ==
    { key \in Owners \X BucketNames \X CategoryNames :
        Positions(entries, key[1], key[2], key[3]) # {} }

RECURSIVE AggregateAll(_, _)
\* lines 82-83 as a whole: _get_usage over the entries in the given order
AggregateAll(s, entries) ==
    IF entries = <<>> THEN s
    ELSE AggregateAll(_get_usage(s, Head(entries)), Tail(entries))

Perms(n) == { p \in [1..n -> 1..n] : \A a, b \in 1..n : p[a] = p[b] => a = b }

Reordered(seq, p) == [k \in 1..Len(seq) |-> seq[p[k]]]

\* an entry with its bins in another order
ReorderedBins(entry, p) == [entry EXCEPT !.buckets = Reordered(@, p)]

\* thread 1 has just consumed all usage entries of its response (line 84 is next)
UsageConsumed ==
    /\ Truthy(rgw_usage[1])
    /\ pc[1] = "usage_metrics"

\* the sums of one counter per key, as the samples of a counter family
ExpectedCounters(entries, field) ==
    SetToBag({ Sample(<<key[2], key[1], key[3], cluster_name>>,
                      SumField(entries, Positions(entries, key[1], key[2], key[3]), field))
               : key \in ExpectedKeys(entries) })

\* C1: once all usage entries of the cycle are consumed, usage_dict holds exactly
\* the (owner, bucket, category) keys that some kept bin carries, each of the four
\* counters of a key is the sum of that counter over all kept bins with the key,
\* and aggregating the entries in any other order, or an entry's bins in any
\* other order, gives the same usage_dict; the counter families of the cycle's
\* snapshot carry these sums.
C1_MergeInvariant ==
    /\ UsageConsumed =>
          LET entries == rgw_usage[1].entries
              ud == self.usage_dict
          IN  /\ UsageKeys(ud) = ExpectedKeys(entries)
              /\ \A key \in ExpectedKeys(entries) : \A field \in CounterFields :
                    ud[key[1]][key[2]][key[3]][field]
                      = SumField(entries, Positions(entries, key[1], key[2], key[3]), field)
              /\ \A p \in Perms(Len(entries)) :
                    AggregateAll(CollectReset, Reordered(entries, p)).usage_dict = ud
              /\ \A i \in 1..Len(entries) : \A p \in Perms(Len(entries[i].buckets)) :
                    AggregateAll(CollectReset,
                                 [entries EXCEPT ![i] = ReorderedBins(@, p)]).usage_dict = ud
    /\ (pc[1] = "done" /\ Truthy(rgw_usage[1])) =>
          \A field \in CounterFields :
             self._prometheus_metrics[field] = ExpectedCounters(rgw_usage[1].entries, field)

\* scenario A: two kept bins of (alice, photos, get_obj) with ops 10 and 5, in
\* two entries of the same owner, are aggregated to ops 15
C1_Witness ==
    /\ UsageConsumed
    /\ Len(rgw_usage[1].entries) = 2
    /\ Cardinality(Positions(rgw_usage[1].entries, "alice", "photos", "get_obj")) = 2
    /\ self.usage_dict["alice"]["photos"]["get_obj"].ops = 15

----------------------------------------------------------------------------
(* C2: the bucket deletion heuristic *)

\* the categories of a bin that logs reads and, when the count is not -1,
\* creations and deletions with that successful_ops
LifecycleCategories(creations, deletions) ==
    << Cat("get_obj", Load(1)) >>
    \o (IF creations = -1 THEN <<>> ELSE << Lifecycle("create_bucket", creations) >>)
    \o (IF deletions = -1 THEN <<>> ELSE << Lifecycle("delete_bucket", deletions) >>)

\* gateways whose usage log is one bin of alice, with every pair of counts
LifecycleGateways ==
    { Gateway([entries |-> << Entry("alice", << Bin("alice", LifecycleCategories(c, d)) >>) >>,
               summary |-> << Summary("alice", << Cat("get_obj", Load(1)) >>) >>],
              List(<< BucketStat("alice") >>), None, List(<< "alice" >>), {})
        : c \in -1..MaxCount, d \in -1..MaxCount }

InitSkip == InitWith(LifecycleGateways, BOOLEAN, {TRUE}, 1)

SpecSkip == InitSkip /\ [][Next]_vars

\* successful_ops of the record's category c, -1 when the record has none
ObservedCount(bucket, c) ==
    IF \E k \in 1..Len(bucket.categories) : bucket.categories[k].category = c
    THEN LET k == CHOOSE k \in 1..Len(bucket.categories) : bucket.categories[k].category = c
         IN  bucket.categories[k].successful_ops
    ELSE -1

\* the bins of the response thread 1 holds
FetchedBins ==
    IF Truthy(rgw_usage[1])
    THEN UNION { { rgw_usage[1].entries[i].buckets[j]
                   : j \in 1..Len(rgw_usage[1].entries[i].buckets) }
                 : i \in 1..Len(rgw_usage[1].entries) }
    ELSE {}

\* C2: with the bucket toggle enabled _skip_bucket returns true exactly when
\* (creations = -1 and deletions > 0) or creations = 0 or (creations >= 0 and
\* deletions - creations >= 0), the counts being the successful_ops of the
\* record's create_bucket and delete_bucket categories, -1 when absent; with the
\* toggle disabled it returns false.  The pairs (-1,5), (0,-1), (3,3) are skipped,
\* (3,1) and (-1,-1) are kept, and a skipped bin leaves no key in usage_dict.
C2_SkipBucket ==
    /\ \A bucket \in FetchedBins :
          LET creations == ObservedCount(bucket, "create_bucket")
              deletions == ObservedCount(bucket, "delete_bucket")
          IN  /\ _skip_bucket(bucket) =
                    (SKIP_DELETED_BUCKET /\ ( \/ (creations = -1 /\ deletions > 0)
                                              \/ creations = 0
                                              \/ (creations >= 0 /\ deletions - creations >= 0) ))
              /\ pc[1] = "usage_metrics" =>
                    (_skip_bucket(bucket) <=> UsageKeys(self.usage_dict) = {})
    /\ _skip_bucket(Bin("alice", LifecycleCategories(-1, 5))) = SKIP_DELETED_BUCKET
    /\ _skip_bucket(Bin("alice", LifecycleCategories(0, -1))) = SKIP_DELETED_BUCKET
    /\ _skip_bucket(Bin("alice", LifecycleCategories(3, 3))) = SKIP_DELETED_BUCKET
    /\ ~_skip_bucket(Bin("alice", LifecycleCategories(3, 1)))
    /\ ~_skip_bucket(Bin("alice", LifecycleCategories(-1, -1)))

\* the bin with 3 creations and 3 deletions was skipped by the usage aggregation
C2_Witness ==
    /\ pc[1] = "usage_metrics"
    /\ SKIP_DELETED_BUCKET
    /\ \E bucket \in FetchedBins :
          /\ ObservedCount(bucket, "create_bucket") = 3
          /\ ObservedCount(bucket, "delete_bucket") = 3
    /\ UsageKeys(self.usage_dict) = {}

----------------------------------------------------------------------------
(* Successive cycles against a gateway whose fetches can fail *)

UserLists == { <<>>, <<"alice">>, <<"alice", "bob">> }

FullUsage ==
    [entries |-> << Entry("alice", << Bin("alice", << Cat("get_obj", Load(1)) >>) >>),
                    Entry("bob", << Bin("bob", << Cat("put_obj", Load(2)) >>) >>) >>,
     summary |-> << Summary("alice", << Cat("get_obj", Load(1)) >>),
                    Summary("bob", << Cat("put_obj", Load(2)) >>) >>]

EmptyUsage == [entries |-> <<>>, summary |-> <<>>]

\* gateways with or without usage data and buckets, with each user list, served
\* by the user list request or only by the metadata/user request of older
\* releases; every fetch of a cycle can fail
CycleGateways ==
    { Gateway(usage, bucket, user_list, List(users), Fetches)
        : usage \in {FullUsage, EmptyUsage},
          bucket \in { List(<< BucketStat("alice"), BucketStat("bob") >>), List(<<>>) },
          <<users, user_list>> \in
             UNION { { <<users, [keys |-> users]>>, <<users, None>> } : users \in UserLists } }

Init == InitWith(CycleGateways, BOOLEAN, BOOLEAN, MaxCycles)

Spec == Init /\ [][Next]_vars

RECURSIVE FoldBucketStats(_, _)
\* lines 87-88 as a whole
FoldBucketStats(s, buckets) ==
    IF buckets = <<>> THEN s
    ELSE FoldBucketStats(_get_bucket_usage(s, Head(buckets)), Tail(buckets))

RECURSIVE FoldUsers(_, _, _)
\* lines 93-95 as a whole, every lookup answered
FoldUsers(s, g, users) ==
    IF users = <<>> THEN s
    ELSE LET user == Head(users)
             s1 == _get_user_quota(s, user, GatewayData(g, QuotaRequest(user)))
         IN  FoldUsers(_get_user_info(s1, user, GatewayData(g, InfoRequest(user))),
                       g, Tail(users))

RECURSIVE FoldSummaries(_, _, _)
\* lines 99-101 as a whole
FoldSummaries(s, summaries, users) ==
    IF summaries = <<>> THEN s
    ELSE FoldSummaries(IF _skip_user(Head(summaries), users) THEN s
                       ELSE _update_usage_summary_metrics(s, Head(summaries)),
                       Tail(summaries), users)

RECURSIVE FoldBucketSummaries(_, _, _)
\* lines 107-108 as a whole
FoldBucketSummaries(s, entries, users) ==
    IF entries = <<>> THEN s
    ELSE FoldBucketSummaries(_update_bucket_usage_summary_metrics(s, Head(entries), users),
                             Tail(entries), users)

\* collect run alone, to completion, on the given responses: the fields of the
\* collector when the families are yielded
CollectAlone(g, usage, bucket, users, duration) ==
    LET s1 == IF Truthy(usage)
              THEN _update_usage_metrics(AggregateAll(CollectReset, usage.entries))
              ELSE CollectReset
        s2 == IF Truthy(bucket) THEN FoldBucketStats(s1, bucket.list) ELSE s1
        s3 == IF Truthy(users) THEN FoldUsers(s2, g, users.list) ELSE s2
        s4 == IF Truthy(usage) THEN FoldSummaries(s3, usage.summary, users) ELSE s3
        s5 == IF Truthy(usage) THEN FoldBucketSummaries(s4, usage.entries, users) ELSE s4
    IN  CollectTail(s5, users, bucket, duration)

----------------------------------------------------------------------------
(* C3, C4: fetches that return no data *)

\* C3: whatever the usage-summary, bucket-stats and user-list fetches return
\* (data or no data), the cycle runs to completion: it never ends in an
\* exception.
C3_CycleCompletes ==
    pc[1] # "aborted"

\* the samples of the per-user families of the summary pass that carry the user
SummarySamplesOf(s, user) ==
    UNION { { smp \in BagToSet(s._prometheus_metrics[name]) : smp.labels[1] = user }
            : name \in {"user_bytes_sent", "user_bytes_received", "user_ops",
                        "user_successful_ops", "user_total_bytes_sent",
                        "user_total_bytes_received", "user_total_ops",
                        "user_total_successful_ops", "user_total_buckets"} }

\* the cycle of thread 1 has ended, by its yield or by an exception
Ended == pc[1] \in {"done", "aborted"}

\* C4 (scenario C): when the user list and its fallback returned no data, the
\* usage summary has a record of alice and the user toggle is on, the cycle
\* completes, carries no summary sample of alice and reports total_users = 0.
C4_ScenarioC ==
    ( /\ Ended
      /\ SKIP_DELETED_USER
      /\ rgw_users[1] = None
      /\ Truthy(rgw_usage[1])
      /\ \E k \in 1..Len(rgw_usage[1].summary) : OwnerOf(rgw_usage[1].summary[k]) = "alice" )
    => /\ pc[1] = "done"
       /\ SummarySamplesOf(self, "alice") = {}
       /\ self._prometheus_metrics["total_users"] = SetToBag({Sample(<<>>, 0)})

----------------------------------------------------------------------------
(* C6: a fresh context per cycle *)

\* collect has reset the fields and not yet left the fetches
Fetching == pc[1] \in {"fetch_usage", "fetch_bucket", "fetch_users", "fetch_users_compat"}

\* C6: in every cycle, the first as well as a later one, aggregation starts from
\* an empty context: no key in usage_dict, no bucket count, all running totals 0,
\* no per-category total and no sample in any family; and the families a cycle
\* yields are those of a cycle run alone on the responses it fetched.
C6_FreshContext ==
    /\ Fetching =>
          /\ self.usage_dict = <<>>
          /\ self.user_buckets = <<>>
          /\ self._ops = <<>>
          /\ self._successful_ops = <<>>
          /\ self._total_objects = 0
          /\ self._total_bytes = 0
          /\ self._total_bytes_sent = 0
          /\ self._total_bytes_received = 0
          /\ self._total_ops = 0
          /\ self._total_successful_ops = 0
          /\ \A name \in DOMAIN self._prometheus_metrics :
                self._prometheus_metrics[name] = EmptyBag
    /\ pc[1] = "done" =>
          \E duration \in Durations :
             yielded[1] = CollectYield(CollectAlone(gw, rgw_usage[1], rgw_bucket[1],
                                                    rgw_users[1], duration))

\* a later cycle has been started and is about to fetch
C6_Witness ==
    /\ cycles <= MaxCycles - 2
    /\ pc[1] = "fetch_bucket"
    /\ rgw_usage[1] = gw.usage
    /\ self.usage_dict = <<>>

----------------------------------------------------------------------------
(* C10: the catalog *)

\* C10: a cycle that completes yields every family of the fixed catalog exactly
\* once, whatever its fetches returned.
C10_WholeCatalog ==
    pc[1] = "done" =>
        /\ Len(yielded[1]) = Len(CatalogOrder)
        /\ \A name \in Catalog :
              Cardinality({ k \in 1..Len(yielded[1]) : yielded[1][k].name = name }) = 1

\* a cycle whose three fetches returned no data yields the whole catalog, the
\* counter families without a sample
C10_Witness ==
    /\ pc[1] = "done"
    /\ rgw_usage[1] = None /\ rgw_bucket[1] = None /\ rgw_users[1] = None
    /\ Len(yielded[1]) = Len(CatalogOrder)
    /\ yielded[1][1] = [name |-> "ops", samples |-> EmptyBag]

----------------------------------------------------------------------------
(* C7: one deletion decision per bucket and cycle *)

\* the bucket-stat records of the response thread 1 holds
FetchedBucketStats ==
    IF Truthy(rgw_bucket[1])
    THEN { rgw_bucket[1].list[k] : k \in 1..Len(rgw_bucket[1].list) }
    ELSE {}

\* some sample of the family names the bucket of the owner in its first labels
Names(name, bucket_name, owner) ==
    \E smp \in BagToSet(self._prometheus_metrics[name]) :
        smp.labels[1] = bucket_name /\ smp.labels[2] = owner

\* C7: within one cycle the deletion decision on a bucket of an owner is the
\* same wherever it is taken: on each of its bins in the usage aggregation and in
\* the bucket usage-summary pass, on its aggregated categories in the counter
\* emission pass and on its record in the bucket-stat pass; a bucket suppressed
\* in the usage aggregation has no sample of the bucket-stat pass.
C7_SameDecision ==
    pc[1] = "done" =>
        \A bin \in FetchedBins :
            /\ \A other \in FetchedBins :
                  (other.owner = bin.owner /\ other.bucket = bin.bucket)
                  => _skip_bucket(other) = _skip_bucket(bin)
            /\ \A stat \in FetchedBucketStats :
                  (stat.owner = bin.owner /\ stat.bucket = bin.bucket)
                  => /\ _skip_bucket(stat) = _skip_bucket(bin)
                     /\ _skip_bucket(bin) => ~Names("bucket_shards", bin.bucket, bin.owner)
            /\ ( /\ bin.owner \in DOMAIN self.usage_dict
                 /\ BucketName(bin) \in DOMAIN self.usage_dict[bin.owner] )
               => _skip_bucket(self.usage_dict[bin.owner][BucketName(bin)]) = _skip_bucket(bin)

----------------------------------------------------------------------------
(* C5: overlapping cycles *)

\* a gateway with usage data, two buckets and two users, whose user list is
\* served by the metadata/user request, which can fail
OverlapGateways ==
    { Gateway(FullUsage, List(<< BucketStat("alice"), BucketStat("bob") >>),
              None, List(<<"alice", "bob">>), {"metadata_user"}) }

InitOverlapping == InitWith(OverlapGateways, BOOLEAN, BOOLEAN, MaxCycles)

\* two scrape threads on the one registered collector
SpecOverlapping == InitOverlapping /\ [][NextOverlapping]_vars

\* C5: when cycles overlap, the families each cycle yields are those of a cycle
\* run alone on the responses it fetched.
C5_Isolation ==
    \A t \in Threads :
        pc[t] = "done" =>
            \E duration \in Durations :
                yielded[t] = CollectYield(CollectAlone(gw, rgw_usage[t], rgw_bucket[t],
                                                       rgw_users[t], duration))

----------------------------------------------------------------------------
(* C8, C9: the summary pass *)

\* the summary records of the usage log: two of alice, one of bob
SummaryKinds ==
    { Summary("alice", << Cat("get_obj", Load(1)) >>),
      Summary("alice", << Cat("get_obj", Load(2)), Cat("put_obj", Load(1)) >>),
      Summary("bob", << Cat("put_obj", Load(2)) >>) }

\* gateways that differ in the summary section and in the user list, which is
\* served by the user list request or by the metadata/user request, which can fail
SummaryGateways ==
    { Gateway([entries |-> << Entry("alice", << Bin("alice", << Cat("get_obj", Load(1)) >>) >>) >>,
               summary |-> summary],
              List(<< BucketStat("alice") >>), user_list, List(users), {"metadata_user"})
        : summary \in SeqsUpTo(SummaryKinds, MaxSummaries),
          <<users, user_list>> \in
             UNION { { <<users, [keys |-> users]>>, <<users, None>> } : users \in UserLists } }

InitSummary == InitWith(SummaryGateways, {FALSE}, BOOLEAN, 1)

SpecSummary == InitSummary /\ [][Next]_vars

\* the owner of the record is in the user list, or the user toggle is off
Eligible(record) ==
    ~SKIP_DELETED_USER \/ (rgw_users[1] # None /\ InList(OwnerOf(record), rgw_users[1]))

\* the summary records of the response thread 1 holds that pass the user test
EligibleSummaries ==
    IF Truthy(rgw_usage[1]) THEN SelectSeq(rgw_usage[1].summary, Eligible) ELSE <<>>

RECURSIVE TotalOf(_, _)
\* the sum of total[field] over the records
TotalOf(records, field) ==
    IF records = <<>> THEN 0
    ELSE Head(records).total[field] + TotalOf(Tail(records), field)

RECURSIVE SumSamples(_)
\* the sum of the values of a family's samples
SumSamples(samples) ==
    IF DOMAIN samples = {} THEN 0
    ELSE LET smp == CHOOSE smp \in DOMAIN samples : TRUE
         IN  smp.value * samples[smp]
             + SumSamples([x \in DOMAIN samples \ {smp} |-> samples[x]])

\* the families the summary pass fills per user
SummaryFamilies ==
    {"user_bytes_sent", "user_bytes_received", "user_ops", "user_successful_ops",
     "user_total_bytes_sent", "user_total_bytes_received", "user_total_ops",
     "user_total_successful_ops", "user_total_buckets"}

\* <<field of total, per-user total family, process-wide total family>>
TotalFamilies ==
    { <<"ops", "user_total_ops", "total_ops">>,
      <<"successful_ops", "user_total_successful_ops", "total_successful_ops">>,
      <<"bytes_sent", "user_total_bytes_sent", "total_bytes_sent">>,
      <<"bytes_received", "user_total_bytes_received", "total_bytes_received">> }

\* C8: with the user toggle enabled the summary pass emits per-user samples only
\* for the summary owners of the user list, and for each of them; total_ops,
\* total_successful_ops, total_bytes_sent and total_bytes_received are the sums
\* of the per-user totals over exactly those records; with the toggle disabled
\* every summary record is emitted.
C8_EligibleOwners ==
    pc[1] = "done" =>
        /\ \A name \in SummaryFamilies :
              \A smp \in BagToSet(self._prometheus_metrics[name]) :
                 \E k \in 1..Len(EligibleSummaries) :
                    OwnerOf(EligibleSummaries[k]) = smp.labels[1]
        /\ \A k \in 1..Len(EligibleSummaries) :
              LET record == EligibleSummaries[k]
                  user == OwnerOf(record)
              IN  /\ BagIn(Sample(<<user, cluster_name>>, record.total.ops),
                           self._prometheus_metrics["user_total_ops"])
                  /\ \A j \in 1..Len(record.categories) :
                        BagIn(Sample(<<user, cluster_name, record.categories[j].category>>,
                                     record.categories[j].bytes_sent),
                              self._prometheus_metrics["user_bytes_sent"])
        /\ ~SKIP_DELETED_USER => EligibleSummaries = rgw_usage[1].summary
        /\ \A f \in TotalFamilies :
              /\ SumSamples(self._prometheus_metrics[f[2]]) = TotalOf(EligibleSummaries, f[1])
              /\ self._prometheus_metrics[f[3]] =
                    SetToBag({ Sample(<<>>, TotalOf(EligibleSummaries, f[1])) })

\* a cycle with the toggle on has reported alice, who is in the user list, and
\* suppressed bob, who is not
C8_Witness ==
    /\ pc[1] = "done"
    /\ SKIP_DELETED_USER
    /\ rgw_users[1] = List(<<"alice">>)
    /\ Len(rgw_usage[1].summary) = 2
    /\ Len(EligibleSummaries) = 1
    /\ \E k \in 1..2 : OwnerOf(rgw_usage[1].summary[k]) = "bob"
    /\ self._prometheus_metrics["total_ops"] # SetToBag({ Sample(<<>>, 0) })

\* the categories of the eligible summary records
EligibleCategories ==
    UNION { { EligibleSummaries[k].categories[j].category
              : j \in 1..Len(EligibleSummaries[k].categories) }
            : k \in 1..Len(EligibleSummaries) }

RECURSIVE CategoryTotalOf(_, _, _)
\* the sum of the field over the records' categories named c
CategoryTotalOf(records, c, field) ==
    IF records = <<>> THEN 0
    ELSE LET named == SelectSeq(Head(records).categories, LAMBDA x : x.category = c)
         IN  SumCategories(named, EmptyCounter)[field]
             + CategoryTotalOf(Tail(records), c, field)

\* C9: for every category of an eligible summary record, total_category_ops
\* carries the sum of ops and total_category_successful_ops the sum of
\* successful_ops over the eligible records.
C9_CategoryTotals ==
    pc[1] = "done" =>
        \A c \in EligibleCategories :
            /\ BagIn(Sample(<<c>>, CategoryTotalOf(EligibleSummaries, c, "ops")),
                     self._prometheus_metrics["total_category_ops"])
            /\ BagIn(Sample(<<c>>, CategoryTotalOf(EligibleSummaries, c, "successful_ops")),
                     self._prometheus_metrics["total_category_successful_ops"])

----------------------------------------------------------------------------
(* C11: the user and bucket counts *)

\* C11: in every completed cycle total_users has exactly one sample, the number
\* of listed users, or 0 when the user list fetch returned no data, and
\* total_buckets has exactly one sample, the number of entries of the bucket
\* stats, or 0 when the bucket stats fetch returned no data.
C11_Counts ==
    pc[1] = "done" =>
        /\ self._prometheus_metrics["total_users"] =
              SetToBag({ Sample(<<>>, IF rgw_users[1] = None THEN 0
                                      ELSE Len(rgw_users[1].list)) })
        /\ self._prometheus_metrics["total_buckets"] =
              SetToBag({ Sample(<<>>, IF rgw_bucket[1] = None THEN 0
                                      ELSE Len(rgw_bucket[1].list)) })
        /\ rgw_users[1] # None => rgw_users[1] = gw.metadata_user
        /\ rgw_bucket[1] # None => rgw_bucket[1] = gw.bucket

\* a cycle without a user list and with two buckets has reported 0 users and 2
\* buckets
C11_Witness ==
    /\ pc[1] = "done"
    /\ rgw_users[1] = None
    /\ rgw_bucket[1] # None /\ Len(rgw_bucket[1].list) = 2
    /\ BagIn(Sample(<<>>, 0), self._prometheus_metrics["total_users"])
    /\ BagIn(Sample(<<>>, 2), self._prometheus_metrics["total_buckets"])

----------------------------------------------------------------------------
(* C12: users without a stats block *)

\* the users of the list thread 1 iterates over (line 90: a false list is not
\* iterated)
ListedUsers ==
    IF Truthy(rgw_users[1]) THEN rgw_users[1].list ELSE <<>>

RECURSIVE StatsTotalOf(_, _, _)
\* the sum of stats[field] over the info records of the users that have stats
StatsTotalOf(g, users, field) ==
    IF users = <<>> THEN 0
    ELSE (IF "stats" \in DOMAIN g.info[Head(users)]
          THEN g.info[Head(users)].stats[field] ELSE 0)
         + StatsTotalOf(g, Tail(users), field)

\* the samples of the family whose first label is the user
SamplesOf(name, user) ==
    { smp \in BagToSet(self._prometheus_metrics[name]) : smp.labels[1] = user }

\* C12: a listed user whose info record has no stats block gets no
\* user_total_bytes and no user_total_objects sample and adds nothing to
\* total_bytes and total_objects, but gets its user_metadata sample; a user with
\* a stats block adds size_actual and num_objects to the totals once.
C12_NoStats ==
    pc[1] = "done" =>
        /\ \A k \in 1..Len(ListedUsers) :
              LET user == ListedUsers[k]
                  user_info == gw.info[user]
              IN  /\ SamplesOf("user_metadata", user) # {}
                  /\ "stats" \notin DOMAIN user_info =>
                        /\ SamplesOf("user_total_bytes", user) = {}
                        /\ SamplesOf("user_total_objects", user) = {}
                  /\ "stats" \in DOMAIN user_info =>
                        /\ SamplesOf("user_total_bytes", user) =
                              { Sample(<<user, cluster_name>>, user_info.stats.size_actual) }
                        /\ SamplesOf("user_total_objects", user) =
                              { Sample(<<user, cluster_name>>, user_info.stats.num_objects) }
        /\ self._prometheus_metrics["total_bytes"] =
              SetToBag({ Sample(<<>>, StatsTotalOf(gw, ListedUsers, "size_actual")) })
        /\ self._prometheus_metrics["total_objects"] =
              SetToBag({ Sample(<<>>, StatsTotalOf(gw, ListedUsers, "num_objects")) })

\* alice, with stats, and bob, without, were listed: bob has his metadata sample
\* only and the totals are alice's
C12_Witness ==
    /\ pc[1] = "done"
    /\ ListedUsers = <<"alice", "bob">>
    /\ SamplesOf("user_metadata", "bob") # {}
    /\ SamplesOf("user_total_bytes", "bob") = {}
    /\ BagIn(Sample(<<>>, 8192), self._prometheus_metrics["total_bytes"])
    /\ BagIn(Sample(<<>>, 3), self._prometheus_metrics["total_objects"])

----------------------------------------------------------------------------
(* Cycles over bucket stats of every release *)

\* a bucket-stat record of the owner with the given name and usage block
BucketStatWith(name, o, usage) ==
    [BucketStat(o) EXCEPT !.bucket = name, !.usage = usage]

\* the records of the bucket stats: with size_actual and size_kb_actual, with
\* size_kb_actual only (Hammer), with size_actual only, with neither, with an
\* empty usage block and with a usage block that has no rgw.main
StatKinds ==
    { BucketStatWith("both", "alice",
          "rgw.main" :> [size_actual |-> 8192, size_kb_actual |-> 2048, num_objects |-> 3]),
      BucketStatWith("hammer", "alice", "rgw.main" :> [size_kb_actual |-> 2048]),
      BucketStatWith("bytes", "alice", "rgw.main" :> [size_actual |-> 8192]),
      BucketStatWith("neither", "bob", "rgw.main" :> [num_objects |-> 3]),
      BucketStatWith("empty", "bob", <<>>),
      BucketStatWith("multimeta", "bob", "rgw.multimeta" :> [size_actual |-> 8192]) }

\* entries that are no JSON object
JunkKinds == { [junk |-> "number"], [junk |-> "string"], [junk |-> "list"] }

\* gateways that differ in their bucket stats, whose fetch can fail; alice is the
\* one listed user, and the usage log has a summary record of alice and one of bob
BucketGateways ==
    { Gateway(FullUsage, List(buckets), None, List(<<"alice">>), {"bucket"})
        : buckets \in SeqsUpTo(StatKinds \cup JunkKinds, MaxBuckets) }

InitBucket == InitWith(BucketGateways, BOOLEAN, BOOLEAN, 1)

SpecBucket == InitBucket /\ [][Next]_vars

\* the bucket-stat loop of thread 1 has run to its end
BucketPassOver ==
    pc[1] \in {"user_quota", "user_info", "summary", "bucket_summary", "finish", "done"}

\* the entries of the bucket stats that are JSON objects
StructuredStats == { stat \in FetchedBucketStats : IsDict(stat) }

----------------------------------------------------------------------------
(* C13: the usage bytes of a bucket *)

\* C13: the usage bytes of a structured bucket-stat record are size_actual when
\* the record has it, otherwise size_kb_actual * 1024 when it has that, otherwise
\* 0; size_kb_actual = 2048 without size_actual gives 2097152, and size_actual
\* wins when both are there.
C13_UsageBytes ==
    BucketPassOver =>
        \A stat \in StructuredStats :
            LET main == IF stat.usage # <<>> /\ "rgw.main" \in DOMAIN stat.usage
                        THEN stat.usage["rgw.main"] ELSE <<>>
                bytes == IF "size_actual" \in DOMAIN main THEN main.size_actual
                         ELSE IF "size_kb_actual" \in DOMAIN main
                              THEN main.size_kb_actual * 1024
                         ELSE 0
            IN  /\ { smp.value : smp \in SamplesOf("bucket_usage_bytes", stat.bucket) } = {bytes}
                /\ stat.bucket = "hammer" => bytes = 2097152
                /\ stat.bucket = "both" => bytes = 8192

\* the Hammer record and the record with both fields have been reported
C13_Witness ==
    /\ pc[1] = "done"
    /\ BagIn(Sample(<<"hammer", "alice", "zg1", cluster_name, "">>, 2097152),
             self._prometheus_metrics["bucket_usage_bytes"])
    /\ BagIn(Sample(<<"both", "alice", "zg1", cluster_name, "">>, 8192),
             self._prometheus_metrics["bucket_usage_bytes"])

----------------------------------------------------------------------------
(* C14: entries of the bucket stats that are no JSON object *)

\* C14: an entry of the bucket stats that is no JSON object is skipped silently:
\* the cycle does not abort, and after the bucket-stat pass the bucket-scoped
\* samples and the bucket counts of the owners are those of the structured
\* entries alone.
C14_JunkSkipped ==
    /\ pc[1] # "aborted"
    /\ BucketPassOver =>
          LET structured == IF Truthy(rgw_bucket[1])
                            THEN SelectSeq(rgw_bucket[1].list, IsDict) ELSE <<>>
          IN  /\ BagCardinality(self._prometheus_metrics["bucket_shards"]) = Len(structured)
              /\ BagCardinality(self._prometheus_metrics["bucket_usage_bytes"]) = Len(structured)
              /\ \A o \in Owners :
                    LET owned == SelectSeq(structured, LAMBDA b : b.owner = o)
                    IN  IF owned = <<>> THEN o \notin DOMAIN self.user_buckets
                        ELSE /\ o \in DOMAIN self.user_buckets
                             /\ self.user_buckets[o] = Len(owned)

----------------------------------------------------------------------------
(* C15: per-user lookups that return no data *)

\* gateways whose quota lookups, info lookups or both can fail, with one or two
\* listed users
LookupGateways ==
    { Gateway(FullUsage, List(<< BucketStat("alice"), BucketStat("bob") >>),
              user_list, List(users), faulty)
        : faulty \in { {"quota"}, {"info"}, {"quota", "info"} },
          <<users, user_list>> \in
             UNION { { <<users, [keys |-> users]>>, <<users, None>> }
                     : users \in { <<"alice">>, <<"alice", "bob">>, <<"bob", "alice">> } } }

InitLookup == InitWith(LookupGateways, BOOLEAN, BOOLEAN, 1)

SpecLookup == InitLookup /\ [][Next]_vars

\* C15: a quota or info lookup of a listed user that returns no data is not
\* fatal: the cycle does not abort, and it yields a snapshot of the whole catalog
\* in which every other listed user has its quota and info samples.
C15_LookupNotFatal ==
    /\ pc[1] # "aborted"
    /\ pc[1] = "done" =>
          /\ Len(yielded[1]) = Len(CatalogOrder)
          /\ \A k \in 1..Len(ListedUsers) :
                \/ SamplesOf("user_quota_enabled", ListedUsers[k]) # {}
                \/ SamplesOf("user_metadata", ListedUsers[k]) # {}

----------------------------------------------------------------------------
(* C16: the requests of a cycle *)

\* gateways that answer the user list request with a keys field, with a record
\* that has none, or not at all; every fetch can fail
RequestGateways ==
    { Gateway(FullUsage, List(<< BucketStat("alice"), BucketStat("bob") >>),
              user_list, List(users), Fetches)
        : <<users, user_list>> \in
             UNION { { <<users, [keys |-> users]>>, <<users, [count |-> Len(users)]>>,
                       <<users, None>> }
                     : users \in UserLists \cup { <<"bob", "alice">> } } }

InitRequests == InitWith(RequestGateways, {FALSE}, BOOLEAN, 1)

\* a scrape is served to its end: the requests block, they do not hang the thread
SpecRequests == InitRequests /\ [][Next]_vars /\ WF_vars(Next)

RECURSIVE PerUserRequests(_)
\* a quota request and then an info request for every user, in list order
PerUserRequests(users) ==
    IF users = <<>> THEN <<>>
    ELSE << QuotaRequest(Head(users)), InfoRequest(Head(users)) >>
         \o PerUserRequests(Tail(users))

\* the user list response of the gateway has a keys field
ListsKeys(g) == g.user_list # None /\ "keys" \in DOMAIN g.user_list

\* the requests of a completed cycle are the three fetches, the fallback and the
\* per-user lookups, in this order; no request is issued twice
RequestsInOrder ==
    /\ Cardinality({ requests[1][k] : k \in 1..Len(requests[1]) }) = Len(requests[1])
    /\ pc[1] = "done" =>
          \E fallback \in BOOLEAN :
             /\ requests[1] = << UsageRequest, BucketRequest, UserListRequest >>
                              \o (IF fallback THEN << MetadataUserRequest >> ELSE <<>>)
                              \o PerUserRequests(ListedUsers)
             /\ Len(requests[1]) = (IF fallback THEN 4 ELSE 3) + 2 * Len(ListedUsers)
             /\ ~fallback => (ListsKeys(gw) /\ rgw_users[1] = List(gw.user_list.keys))
             /\ ~ListsKeys(gw) => fallback

----------------------------------------------------------------------------
(* C17: the bucket count of a user *)

\* the number of structured bucket-stat records of the cycle owned by the user
BucketsOwnedBy(o) ==
    Cardinality({ k \in 1..Len(IF Truthy(rgw_bucket[1]) THEN rgw_bucket[1].list ELSE <<>>) :
                    /\ IsDict(rgw_bucket[1].list[k])
                    /\ rgw_bucket[1].list[k].owner = o })

\* C17: the user_total_buckets sample the summary pass emits for an eligible
\* owner is the number of structured bucket-stat records of the cycle owned by
\* that user; an eligible owner without such a record, or in a cycle whose bucket
\* stats fetch returned no data, has no user_total_buckets sample.
C17_BucketCount ==
    pc[1] = "done" =>
        \A k \in 1..Len(EligibleSummaries) :
            LET o == OwnerOf(EligibleSummaries[k])
            IN  SamplesOf("user_total_buckets", o) =
                   IF BucketsOwnedBy(o) = 0 THEN {}
                   ELSE { Sample(<<o, cluster_name>>, BucketsOwnedBy(o)) }

\* alice owns two of the buckets of the cycle and bob none: alice is reported with
\* 2, bob, though eligible, not at all
C17_Witness ==
    /\ pc[1] = "done"
    /\ ~SKIP_DELETED_USER
    /\ BucketsOwnedBy("alice") = 2
    /\ SamplesOf("user_total_buckets", "alice") = { Sample(<<"alice", cluster_name>>, 2) }
    /\ SamplesOf("user_total_buckets", "bob") = {}
    /\ SamplesOf("user_total_ops", "bob") # {}

----------------------------------------------------------------------------
(* C18: one sample per label values *)

\* the kept bins of the usage log for the bucket of the owner, as <<entry, bin>>
BinsOf(o, b) ==
    { p \in (1..MaxEntries + 1) \X (1..MaxBins + 1) :
        /\ Truthy(rgw_usage[1])
        /\ p[1] <= Len(rgw_usage[1].entries)
        /\ p[2] <= Len(rgw_usage[1].entries[p[1]].buckets)
        /\ LET bin == rgw_usage[1].entries[p[1]].buckets[p[2]]
           IN  bin.owner = o /\ bin.bucket = b /\ ~_skip_bucket(bin) }

\* C18: in every snapshot no family has two samples with the same label values,
\* and the bins of one bucket of an owner are merged into one sample of
\* bucket_ops.
C18_OneSamplePerLabels ==
    pc[1] = "done" =>
        /\ \A name \in Catalog :
              \A s1, s2 \in DOMAIN self._prometheus_metrics[name] :
                 s1.labels = s2.labels =>
                    (s1 = s2 /\ self._prometheus_metrics[name][s1] = 1)
        /\ \A o \in Owners, b \in BucketNames :
              (BinsOf(o, b) # {} /\ ~_skip_user([owner |-> o], rgw_users[1]))
              => Cardinality(SamplesOf("bucket_ops", b) \cap
                             { smp \in DOMAIN self._prometheus_metrics["bucket_ops"] :
                                 smp.labels[2] = o }) = 1

----------------------------------------------------------------------------
(* C19: owners that are not listed users *)

\* the families whose second label is the owner of a bucket
OwnerFamilies ==
    {"ops", "successful_ops", "bytes_sent", "bytes_received",
     "bucket_usage_bytes", "bucket_utilized_bytes", "bucket_usage_objects",
     "bucket_quota_enabled", "bucket_quota_max_size", "bucket_quota_max_size_bytes",
     "bucket_quota_max_objects", "bucket_shards",
     "bucket_ops", "bucket_successful_ops", "bucket_bytes_sent", "bucket_bytes_received"}

\* the families whose first label is a user
UserFamilies ==
    SummaryFamilies \cup
    {"user_metadata", "user_quota_enabled", "user_quota_max_size",
     "user_quota_max_size_bytes", "user_quota_max_objects",
     "user_total_objects", "user_total_bytes"}

\* C19: with the user toggle enabled and a fetched user list, no sample of a
\* family labelled with an owner or a user names one that is not in the user
\* list.
C19_ListedOwnersOnly ==
    (pc[1] = "done" /\ SKIP_DELETED_USER /\ rgw_users[1] # None) =>
        /\ \A name \in OwnerFamilies :
              \A smp \in DOMAIN self._prometheus_metrics[name] :
                 InList(smp.labels[2], rgw_users[1])
        /\ \A name \in UserFamilies :
              \A smp \in DOMAIN self._prometheus_metrics[name] :
                 InList(smp.labels[1], rgw_users[1])

====
